---- MODULE Spec2Model ----
(***************************************************************************)
(* Model of src/app.py (the "Data Transformer" Streamlit page):            *)
(*   transpose_row  - one wide row -> zero or more long rows               *)
(*   to_excel       - spreadsheet encoding with fallback engines           *)
(*   main           - one upload / transform / render cycle                *)
(*                                                                         *)
(* Python strings are sequences of one-character strings so that strip(),  *)
(* float() and the case-insensitive "Balance" search are computed, not     *)
(* assumed.  A cell value is a record [t, n, e, s]:                        *)
(*   t = "none"            Python None                                     *)
(*   t = "nan"             float NaN (what pandas reads for an empty cell) *)
(*   t = "num"             the number n * 10^(-e)                          *)
(*   t = "str"             the string s                                    *)
(***************************************************************************)
EXTENDS Integers, Sequences, FiniteSets, TLC

VARIABLES
    pc,                  \* position inside main() / the transpose_row harness
    delim,               \* index into ['\t', ',', ';'] of the read loop (line 94)
    headers,             \* df.columns.tolist()            (line 110)
    df,                  \* the rows of the parsed table   (line 97)
    idx,                 \* number of rows df.iterrows() has yielded so far
    row,                 \* row.tolist() of the current iteration (line 116)
    transposed_rows,     \* the last return value of transpose_row
    all_transposed_rows, \* line 113 / 117
    new_df,              \* rows of new_df (line 122 .. 132)
    initial_count,       \* line 125
    filtered_count,      \* line 134
    ui                   \* what Streamlit has rendered in this cycle

vars == <<pc, delim, headers, df, idx, row, transposed_rows,
          all_transposed_rows, new_df, initial_count, filtered_count, ui>>

----------------------------------------------------------------------------
(* Bounds of the model and constants of the program *)

\* rows of an uploaded table
MaxRows == 2

\* activity cells of a row handed to transpose_row on its own
MaxActivityValues == 2

NFixed == 11

----------------------------------------------------------------------------
(* Cell values *)

None == [t |-> "none", n |-> 0, e |-> 0, s |-> <<>>]

NaN == [t |-> "nan", n |-> 0, e |-> 0, s |-> <<>>]

Num(k) == [t |-> "num", n |-> k, e |-> 0, s |-> <<>>]

Dec(m, d) == [t |-> "num", n |-> m, e |-> d, s |-> <<>>]

Str(chars) == [t |-> "str", n |-> 0, e |-> 0, s |-> chars]

----------------------------------------------------------------------------
(* Python string primitives *)

IsSpace(c) == c \in {" ", "\t"}

IsDigit(c) == c \in {"0", "1", "2", "3", "4", "5", "6", "7", "8", "9"}

DigitVal(c) ==
    CASE c = "0" -> 0 [] c = "1" -> 1 [] c = "2" -> 2 [] c = "3" -> 3
      [] c = "4" -> 4 [] c = "5" -> 5 [] c = "6" -> 6 [] c = "7" -> 7
      [] c = "8" -> 8 [] c = "9" -> 9

\* str.lower() on one character (the letters the model's strings use)
LowerChar(c) ==
    CASE c = "A" -> "a" [] c = "B" -> "b" [] c = "C" -> "c" [] c = "E" -> "e"
      [] c = "F" -> "f" [] c = "I" -> "i" [] c = "L" -> "l" [] c = "N" -> "n"
      [] c = "O" -> "o" [] c = "P" -> "p" [] c = "R" -> "r" [] c = "T" -> "t"
      [] c = "U" -> "u" [] c = "G" -> "g" [] c = "S" -> "s" [] c = "Y" -> "y"
      [] OTHER -> c

Lower(s) == [i \in 1..Len(s) |-> LowerChar(s[i])]

RECURSIVE LStrip(_)
LStrip(s) == IF s # <<>> /\ IsSpace(Head(s)) THEN LStrip(Tail(s)) ELSE s

RECURSIVE RStrip(_)
RStrip(s) ==
    IF s # <<>> /\ IsSpace(s[Len(s)]) THEN RStrip(SubSeq(s, 1, Len(s) - 1)) ELSE s

\* str.strip()
Strip(s) == RStrip(LStrip(s))

\* needle in haystack (substring test)
Contains(hay, needle) ==
    \E i \in 1..(Len(hay) - Len(needle) + 1) :
        SubSeq(hay, i, i + Len(needle) - 1) = needle

AllDigits(s) == \A i \in 1..Len(s) : IsDigit(s[i])

RECURSIVE DigitsVal(_)
DigitsVal(s) ==
    IF s = <<>> THEN 0
    ELSE 10 * DigitsVal(SubSeq(s, 1, Len(s) - 1)) + DigitVal(s[Len(s)])

DotAt(s) == IF \E i \in 1..Len(s) : s[i] = "."
            THEN CHOOSE i \in 1..Len(s) : s[i] = "." /\ \A j \in 1..(i-1) : s[j] # "."
            ELSE 0

----------------------------------------------------------------------------
(* Numeric interpretation *)

Inf == [t |-> "inf", n |-> 0, e |-> 0, s |-> <<>>]

\* the outcome of float(value) when it raises ValueError or TypeError
FloatError == [t |-> "error", n |-> 0, e |-> 0, s |-> <<>>]

\* float(s) for a Python string: surrounding whitespace is stripped, an
\* optional sign, then "nan", "inf", "infinity" in any case or a decimal
\* literal with at least one digit.  (Exponents and digit-group underscores
\* are outside the alphabet of the model's strings.)
FloatOfStr(s) ==
    LET b      == Strip(s)
        signed == b # <<>> /\ b[1] \in {"+", "-"}
        sign   == IF b # <<>> /\ b[1] = "-" THEN -1 ELSE 1
        u      == IF signed THEN Tail(b) ELSE b
        d      == DotAt(u)
        ip     == IF d = 0 THEN u ELSE SubSeq(u, 1, d - 1)
        fp     == IF d = 0 THEN <<>> ELSE SubSeq(u, d + 1, Len(u))
    IN  IF Lower(u) = <<"n", "a", "n">> THEN NaN
        ELSE IF Lower(u) \in {<<"i", "n", "f">>,
                              <<"i", "n", "f", "i", "n", "i", "t", "y">>} THEN Inf
        ELSE IF AllDigits(ip) /\ AllDigits(fp) /\ Len(ip) + Len(fp) > 0
             THEN Dec(sign * DigitsVal(ip \o fp), Len(fp))
        ELSE FloatError

\* float(value), line 36
PyFloat(v) ==
    CASE v.t = "none" -> FloatError
      [] v.t = "str"  -> FloatOfStr(v.s)
      [] OTHER        -> v

\* seeded fault: compares the textual form with a literal zero, so that a
\* zero written with decimals ("0.00") is not recognised
IsZero_literal(x) == x.t = "num" /\ x.n = 0 /\ x.e = 0

\* x == 0 on a float, as used at line 36 and, element-wise, at line 131
IsZero(x) == x.t = "num" /\ x.n = 0

\* seeded fault: the null test is forgotten, only strings are looked at
IsMissing_noisna(value) ==
    value.t = "str" /\ Strip(value.s) \in {<<"-">>, <<>>}

\* pd.isna(value) or (isinstance(value, str) and value.strip() in ['-', '']),
\* line 31
IsMissing(value) ==
    \/ value.t \in {"none", "nan"}
    \/ value.t = "str" /\ Strip(value.s) \in {<<"-">>, <<>>}

\* lines 34-39: True when the try block ends in `continue`, either because
\* float(value) == 0 or because float(value) raised ValueError / TypeError
SkippedByFloatCheck(value) ==
    LET f == PyFloat(value) IN f.t = "error" \/ IsZero(f)

\* pd.to_numeric(..., errors='coerce') on one cell, line 130: numbers stay,
\* parseable text becomes its number, everything else becomes NaN
ToNumeric(v) ==
    LET f == PyFloat(v) IN IF f.t \in {"error", "none"} THEN NaN ELSE f

----------------------------------------------------------------------------
(* transpose_row, lines 18-45 *)

Min(a, b) == IF a < b THEN a ELSE b

\* seeded fault: the slice is one column short
fixed_values_short(r) ==
    IF Len(r) >= NFixed THEN SubSeq(r, 1, NFixed - 1) \o <<None>>
    ELSE r \o [i \in 1..(NFixed - Len(r)) |-> None]

\* line 23
fixed_values(r) ==
    IF Len(r) >= NFixed THEN SubSeq(r, 1, NFixed)
    ELSE r \o [i \in 1..(NFixed - Len(r)) |-> None]

\* line 26
activity_headers(h) == IF Len(h) > NFixed THEN SubSeq(h, NFixed + 1, Len(h)) ELSE <<>>

\* line 27
activity_values(r) == IF Len(r) > NFixed THEN SubSeq(r, NFixed + 1, Len(r)) ELSE <<>>

\* the body of the for loop at lines 29-43 for the pairs k..n of the zip
RECURSIVE TransposeFrom(_, _, _, _)
TransposeFrom(k, fixed, ah, av) ==
    IF k > Min(Len(ah), Len(av)) THEN <<>>
    ELSE IF IsMissing(av[k]) \/ SkippedByFloatCheck(av[k])
         THEN TransposeFrom(k + 1, fixed, ah, av)
         ELSE <<fixed \o <<ah[k], av[k]>>>> \o TransposeFrom(k + 1, fixed, ah, av)

\* seeded fault: the result is built back to front
RECURSIVE Reverse(_)
Reverse(s) == IF s = <<>> THEN <<>> ELSE Reverse(Tail(s)) \o <<Head(s)>>

transpose_row_reversed(r, h) ==
    Reverse(TransposeFrom(1, fixed_values(r), activity_headers(h), activity_values(r)))

transpose_row(r, h) ==
    TransposeFrom(1, fixed_values(r), activity_headers(h), activity_values(r))

----------------------------------------------------------------------------
(* The post-filters of main, lines 121-134 *)

Activity(r) == r[NFixed + 1]

Amount(r) == r[NFixed + 2]

Balance == <<"B", "a", "l", "a", "n", "c", "e">>

\* line 121
new_headers(h) ==
    SubSeq(h, 1, Min(Len(h), NFixed))
        \o <<Str(<<"A", "c", "t", "i", "v", "i", "t", "y">>),
             Str(<<"A", "m", "o", "u", "n", "t">>)>>

\* seeded fault: case=False is forgotten
ContainsBalance_cased(label) == Contains(label.s, Balance)

\* .astype(str).str.contains('Balance', case=False, na=False), line 127
ContainsBalance(label) == Contains(Lower(label.s), Lower(Balance))

\* line 126
DropExactBalance(rows) ==
    LET keep(r) == Activity(r) # Str(Balance) IN SelectSeq(rows, keep)

\* line 127
DropContainsBalance(rows) ==
    LET keep(r) == ~ContainsBalance(Activity(r)) IN SelectSeq(rows, keep)

\* line 130
CoerceAmount(rows) ==
    [i \in 1..Len(rows) |-> [rows[i] EXCEPT ![NFixed + 2] = ToNumeric(@)]]

\* line 131 (NaN != 0 is True, so rows with a NaN Amount pass this filter)
DropZeroAmount(rows) ==
    LET keep(r) == ~IsZero(Amount(r)) IN SelectSeq(rows, keep)

\* line 132
DropNaAmount(rows) ==
    LET keep(r) == Amount(r).t # "nan" IN SelectSeq(rows, keep)

\* lines 126-132 in order
PostFilter(rows) ==
    DropNaAmount(DropZeroAmount(CoerceAmount(
        DropContainsBalance(DropExactBalance(rows)))))

\* new_df.to_csv(index=False), line 147: the header line, then one line per
\* row in table order (the textual formatting of the cells is pandas' own)
to_csv(h, rows) == <<new_headers(h)>> \o rows

\* to_excel, lines 47-60: the engine that writes the sheet, or "raise" when
\* no engine is importable (line 58) or the chosen writer itself fails
to_excel(openpyxl, xlsxwriter, writer_ok) ==
    IF openpyxl THEN (IF writer_ok THEN "openpyxl" ELSE "raise")
    ELSE IF xlsxwriter THEN (IF writer_ok THEN "xlsxwriter" ELSE "raise")
    ELSE "raise"

----------------------------------------------------------------------------
(* Inputs *)

Rent == <<"R", "e", "n", "t">>

Utilities == <<"U", "t", "i", "l", "i", "t", "i", "e", "s">>

OpeningBALANCE ==
    <<"O", "p", "e", "n", "i", "n", "g", " ", "B", "A", "L", "A", "N", "C", "E">>

Labels == {Str(Rent), Str(Utilities), Str(Balance), Str(OpeningBALANCE)}

DigitChars == <<"0", "1", "2", "3", "4", "5", "6", "7", "8", "9">>

\* names of the identity columns: "c1" .. "c11"
IdentityNames ==
    [j \in 1..NFixed |->
        Str(IF j < 10 THEN <<"c", DigitChars[j + 1]>>
            ELSE <<"c", "1", DigitChars[j - 9]>>)]

\* identity cells of the k-th row of a table: the first cell numbers the row,
\* the others include cells that look like zeros and missing markers
IdentityValues(k) ==
    <<Num(k), Str(<<"J", "1">>), NaN, Num(0), Str(<<"-">>), Str(<<>>),
      Str(<<"0", ".", "0">>), Num(7), Str(<<"a", "b", "c">>), Dec(25, 1), Num(k + 1)>>

\* activity columns of an uploaded table: pandas keeps column names distinct
ActivityLists ==
    {<<>>} \cup {<<a>> : a \in Labels}
           \cup {p \in Labels \X Labels : p[1] # p[2]}

\* header lists read_csv can return: fewer than NFixed columns, or all the
\* identity columns followed by the activity columns
HeaderLists ==
    {SubSeq(IdentityNames, 1, n) : n \in 1..(NFixed - 1)}
        \cup {IdentityNames \o al : al \in ActivityLists}

\* activity cells of an uploaded table
Values ==
    {Num(0), Str(<<"0", ".", "0", "0">>), Str(<<"n", "a", "n">>), Num(5)}

NumActivity(h) == IF Len(h) > NFixed THEN Len(h) - NFixed ELSE 0

\* the table with header list h whose k-th row has the activity cells
\* cells[k]: every row is as long as h
Table(h, cells) ==
    [k \in 1..Len(cells) |->
        SubSeq(IdentityValues(k), 1, Min(Len(h), NFixed)) \o cells[k]]

----------------------------------------------------------------------------
(* main, lines 62-194 *)

NothingRendered ==
    [instructions |-> FALSE, read_success |-> FALSE, original |-> FALSE,
     table |-> FALSE, stats |-> {}, csv |-> <<>>, excel |-> "none",
     success |-> FALSE, warning |-> FALSE, errors |-> <<>>]

Init ==
    /\ pc = "main"
    /\ delim = 0
    /\ headers = <<>>
    /\ df = <<>>
    /\ idx = 0
    /\ row = <<>>
    /\ transposed_rows = <<>>
    /\ all_transposed_rows = <<>>
    /\ new_df = <<>>
    /\ initial_count = 0
    /\ filtered_count = 0
    /\ ui = NothingRendered

\* line 75 false, lines 182-194: no file chosen, the instructions are shown
NoUpload ==
    /\ pc = "main"
    /\ pc' = "done"
    /\ ui' = [ui EXCEPT !.instructions = TRUE]
    /\ UNCHANGED <<delim, headers, df, idx, row, transposed_rows,
                   all_transposed_rows, new_df, initial_count, filtered_count>>

\* line 75 true; the uploader only accepts .csv and .txt names (line 73), so
\* the test of line 78 is false and the cycle continues at line 91
Upload ==
    /\ pc = "main"
    /\ pc' = "decode"
    /\ UNCHANGED <<delim, headers, df, idx, row, transposed_rows,
                   all_transposed_rows, new_df, initial_count, filtered_count, ui>>

\* lines 91-94: the bytes decode as UTF-8, the delimiter loop starts
Decode ==
    /\ pc = "decode"
    /\ pc' = "read"
    /\ delim' = 1
    /\ UNCHANGED <<headers, df, idx, row, transposed_rows,
                   all_transposed_rows, new_df, initial_count, filtered_count, ui>>

\* lines 95-99: the attempt with the current delimiter parses; break.  The
\* loop variable is not read after the message of line 98.
ReadCsvOk ==
    /\ pc = "read"
    /\ delim \in 1..3
    /\ \E h \in HeaderLists, n \in 0..MaxRows :
          \E cells \in [1..n -> [1..NumActivity(h) -> Values]] :
             /\ headers' = h
             /\ df' = Table(h, cells)
    /\ ui' = [ui EXCEPT !.read_success = TRUE]
    /\ delim' = 0
    /\ pc' = "show_original"
    /\ UNCHANGED <<idx, row, transposed_rows, all_transposed_rows, new_df,
                   initial_count, filtered_count>>

\* lines 100-101: the attempt raises; continue with the next delimiter
ReadCsvFails ==
    /\ pc = "read"
    /\ delim \in 1..3
    /\ delim' = delim + 1
    /\ UNCHANGED <<pc, headers, df, idx, row, transposed_rows,
                   all_transposed_rows, new_df, initial_count, filtered_count, ui>>

\* lines 102-104: the loop ran out of delimiters; error message and return
ReadAllFailed ==
    /\ pc = "read"
    /\ delim = 4
    /\ ui' = [ui EXCEPT !.errors = Append(@, <<"Could not read the file", "read">>)]
    /\ pc' = "done"
    /\ UNCHANGED <<delim, headers, df, idx, row, transposed_rows,
                   all_transposed_rows, new_df, initial_count, filtered_count>>

\* lines 106-113: the original table is shown, the accumulator is emptied
ShowOriginal ==
    /\ pc = "show_original"
    /\ ui' = [ui EXCEPT !.original = TRUE]
    /\ idx' = 0
    /\ all_transposed_rows' = <<>>
    /\ pc' = "loop"
    /\ UNCHANGED <<delim, headers, df, row, transposed_rows, new_df,
                   initial_count, filtered_count>>

\* lines 115-117: one iteration of df.iterrows()
LoopBody ==
    /\ pc = "loop"
    /\ idx < Len(df)
    /\ row' = df[idx + 1]
    /\ transposed_rows' = transpose_row(df[idx + 1], headers)
    /\ all_transposed_rows' = all_transposed_rows \o transpose_row(df[idx + 1], headers)
    /\ idx' = idx + 1
    /\ UNCHANGED <<pc, delim, headers, df, new_df, initial_count, filtered_count, ui>>

\* line 120 false, lines 176-177: nothing was transposed
NoValidData ==
    /\ pc = "loop"
    /\ idx = Len(df)
    /\ all_transposed_rows = <<>>
    /\ ui' = [ui EXCEPT !.warning = TRUE]
    /\ pc' = "done"
    /\ UNCHANGED <<delim, headers, df, idx, row, transposed_rows,
                   all_transposed_rows, new_df, initial_count, filtered_count>>

\* line 120 true, lines 121-134: the new table and its post-filters
BuildAndFilter ==
    /\ pc = "loop"
    /\ idx = Len(df)
    /\ all_transposed_rows # <<>>
    /\ initial_count' = Len(all_transposed_rows)
    /\ new_df' = PostFilter(all_transposed_rows)
    /\ filtered_count' = Len(PostFilter(all_transposed_rows))
    /\ pc' = "render_table"
    /\ UNCHANGED <<delim, headers, df, idx, row, transposed_rows,
                   all_transposed_rows, ui>>

\* lines 136-137
RenderTable ==
    /\ pc = "render_table"
    /\ ui' = [ui EXCEPT !.table = TRUE]
    /\ pc' = "render_stats"
    /\ UNCHANGED <<delim, headers, df, idx, row, transposed_rows,
                   all_transposed_rows, new_df, initial_count, filtered_count>>

\* lines 139-141: the panel names two counts
RenderStats ==
    /\ pc = "render_stats"
    /\ ui' = [ui EXCEPT !.stats = {<<"Original transposed rows", initial_count>>,
                                   <<"Final valid rows", filtered_count>>}]
    /\ pc' = "csv"
    /\ UNCHANGED <<delim, headers, df, idx, row, transposed_rows,
                   all_transposed_rows, new_df, initial_count, filtered_count>>

\* lines 144-154
CsvDownload ==
    /\ pc = "csv"
    /\ ui' = [ui EXCEPT !.csv = to_csv(headers, new_df)]
    /\ pc' = "excel"
    /\ UNCHANGED <<delim, headers, df, idx, row, transposed_rows,
                   all_transposed_rows, new_df, initial_count, filtered_count>>

\* seeded fault: the inner try/except is missing, the failure reaches line 179
ExcelDownload_uncaught ==
    /\ pc = "excel"
    /\ \E openpyxl \in BOOLEAN, xlsxwriter \in BOOLEAN, writer_ok \in BOOLEAN :
          IF to_excel(openpyxl, xlsxwriter, writer_ok) = "raise"
          THEN /\ ui' = [ui EXCEPT !.errors = Append(@, <<"Error processing file", "excel">>)]
               /\ pc' = "done"
          ELSE /\ ui' = [ui EXCEPT !.excel = "download"]
               /\ pc' = "success"
    /\ UNCHANGED <<delim, headers, df, idx, row, transposed_rows,
                   all_transposed_rows, new_df, initial_count, filtered_count>>

\* lines 156-172: OPENPYXL_AVAILABLE and XLSXWRITER_AVAILABLE are fixed at
\* import (lines 6-16) and read here only; a failure of to_excel is caught
\* at line 166 and leaves a disabled button
ExcelDownload ==
    /\ pc = "excel"
    /\ \E openpyxl \in BOOLEAN, xlsxwriter \in BOOLEAN, writer_ok \in BOOLEAN :
          ui' = [ui EXCEPT !.excel =
                    IF to_excel(openpyxl, xlsxwriter, writer_ok) = "raise"
                    THEN "disabled" ELSE "download"]
    /\ pc' = "success"
    /\ UNCHANGED <<delim, headers, df, idx, row, transposed_rows,
                   all_transposed_rows, new_df, initial_count, filtered_count>>

\* line 174
Success ==
    /\ pc = "success"
    /\ ui' = [ui EXCEPT !.success = TRUE]
    /\ pc' = "done"
    /\ UNCHANGED <<delim, headers, df, idx, row, transposed_rows,
                   all_transposed_rows, new_df, initial_count, filtered_count>>

\* the statements inside the try of line 76 whose library call can raise:
\* decode (91), st.dataframe (107, 137), the DataFrame construction and
\* filters (122-132), to_csv and the download button (147-154)
RaisingSteps == {"decode", "show_original", "loop_end", "render_table", "csv"}

AtStep ==
    IF pc = "loop" THEN (IF idx = Len(df) /\ all_transposed_rows # <<>>
                         THEN "loop_end" ELSE "loop_body")
    ELSE pc

\* seeded fault: the handler of line 179 is missing
StepRaises_unhandled ==
    /\ AtStep \in RaisingSteps
    /\ pc' = "crashed"
    /\ UNCHANGED <<delim, headers, df, idx, row, transposed_rows,
                   all_transposed_rows, new_df, initial_count, filtered_count, ui>>

\* lines 179-180: an exception raised by the current statement is caught at
\* the top level and becomes one error message that carries the exception
\* (here: the step that raised it); the cycle ends
StepRaises ==
    /\ AtStep \in RaisingSteps
    /\ ui' = [ui EXCEPT !.errors = Append(@, <<"Error processing file", AtStep>>)]
    /\ pc' = "done"
    /\ UNCHANGED <<delim, headers, df, idx, row, transposed_rows,
                   all_transposed_rows, new_df, initial_count, filtered_count>>

Next ==
    \/ NoUpload
    \/ Upload
    \/ Decode
    \/ ReadCsvOk
    \/ ReadCsvFails
    \/ ReadAllFailed
    \/ ShowOriginal
    \/ LoopBody
    \/ NoValidData
    \/ BuildAndFilter
    \/ RenderTable
    \/ RenderStats
    \/ CsvDownload
    \/ ExcelDownload
    \/ Success
    \/ StepRaises

Spec == Init /\ [][Next]_vars

----------------------------------------------------------------------------
(* transpose_row on its own: any row with any header list *)

\* activity cells: every kind of value line 31 and lines 35-39 tell apart
TValues ==
    {None, NaN, Str(<<>>), Str(<<" ", " ">>), Str(<<"-">>), Str(<<" ", "-", " ">>),
     Num(0), Dec(0, 1), Str(<<"0">>), Str(<<"0", ".", "0", "0">>), Str(<<"-", "0">>),
     Str(<<"a", "b", "c">>), Num(5), Str(<<" ", "5">>), Str(<<"-", "2", ".", "5">>),
     Str(<<"N", "a", "N">>)}

SeqsUpTo(S, n) == UNION {[1..k -> S] : k \in 0..n}

\* rows shorter than NFixed, and full rows with up to MaxActivityValues cells
TRows ==
    {SubSeq(IdentityValues(1), 1, n) : n \in 0..(NFixed - 1)}
        \cup {IdentityValues(1) \o av : av \in SeqsUpTo(TValues, MaxActivityValues)}

InitT ==
    /\ pc = "t_call"
    /\ headers \in HeaderLists
    /\ row \in TRows
    /\ transposed_rows = <<>>
    /\ delim = 0
    /\ df = <<>>
    /\ idx = 0
    /\ all_transposed_rows = <<>>
    /\ new_df = <<>>
    /\ initial_count = 0
    /\ filtered_count = 0
    /\ ui = NothingRendered

\* transposed_rows = transpose_row(row, headers)
TransposeCall ==
    /\ pc = "t_call"
    /\ transposed_rows' = transpose_row(row, headers)
    /\ pc' = "t_done"
    /\ UNCHANGED <<delim, headers, df, idx, row, all_transposed_rows, new_df,
                   initial_count, filtered_count, ui>>

NextT == TransposeCall

SpecT == InitT /\ [][NextT]_vars

----------------------------------------------------------------------------
(* Vocabulary of the properties, stated without the operators above *)

\* "balance" occurs in the string, letter case ignored
MentionsBalance(s) ==
    \E i \in 1..(Len(s) - 6) :
        /\ s[i] \in {"b", "B"}     /\ s[i + 1] \in {"a", "A"}
        /\ s[i + 2] \in {"l", "L"} /\ s[i + 3] \in {"a", "A"}
        /\ s[i + 4] \in {"n", "N"} /\ s[i + 5] \in {"c", "C"}
        /\ s[i + 6] \in {"e", "E"}

\* null/NaN, an empty or whitespace-only string, or "-"
MissingMarker(v) ==
    \/ v \in {None, NaN}
    \/ v.t = "str" /\ \A i \in 1..Len(v.s) : v.s[i] = " "
    \/ v = Str(<<"-">>)

\* the values of the inputs that stand for the number zero
ZeroForms ==
    {Num(0), Dec(0, 1), Str(<<"0">>), Str(<<"0", ".", "0", "0">>), Str(<<"-", "0">>)}

\* an Amount that is the number zero, whatever its decimals
ZeroAmount(v) == v.t = "num" /\ v.n = 0

\* position in the header list h of the column named label
ColumnOf(h, label) == CHOOSE c \in 1..Len(h) : h[c] = label

\* the cell of df a long row was made from: its first identity cell numbers
\* the input row, its Activity label names the column
RowOf(r) == r[1].n

SourceCell(r) == df[RowOf(r)][ColumnOf(headers, Activity(r))]

\* the rows are in input order: by input row, then by activity column
InInputOrder(rows) ==
    \A i \in 1..Len(rows), j \in 1..Len(rows) :
        i < j =>
            \/ RowOf(rows[i]) < RowOf(rows[j])
            \/ /\ RowOf(rows[i]) = RowOf(rows[j])
               /\ ColumnOf(headers, Activity(rows[i])) < ColumnOf(headers, Activity(rows[j]))

\* where in the transposed rows a final row comes from
Key(r) == <<RowOf(r), Activity(r)>>

\* number of activity (header, value) pairs the zip of line 29 visits
NumPairs == Min(NumActivity(headers), NumActivity(row))

\* the cycle ended with an error message
Failed == ui.errors # <<>>

\* the cycle ran to the end of the transformation without a failure
Completed == pc = "done" /\ ui.read_success /\ ~Failed

----------------------------------------------------------------------------
(* C1: no row of the final table has an Activity label that equals "Balance"
   or contains "balance" in any letter case; the same holds of the table
   offered for download. *)
C1_NoBalanceInFinalTable ==
    /\ \A i \in 1..Len(new_df) :
          /\ Activity(new_df[i]) # Str(Balance)
          /\ ~MentionsBalance(Activity(new_df[i]).s)
    /\ \A i \in 2..Len(ui.csv) : ~MentionsBalance(Activity(ui.csv[i]).s)

\* a cycle that transposed a non-zero cell of an "Opening BALANCE" column and
\* a cell of another column, and finished with a non-empty table
C1_Witness ==
    /\ Completed /\ ui.success /\ new_df # <<>>
    /\ \E i \in 1..Len(all_transposed_rows) :
          Activity(all_transposed_rows[i]) = Str(OpeningBALANCE)

(* C2: a value that coerces to the number zero never appears as the Amount of
   a row of the final table: no final row carries a zero Amount and none was
   made from a cell holding a form of zero. *)
C2_NoZeroAmount ==
    \A i \in 1..Len(new_df) :
        /\ ~ZeroAmount(Amount(new_df[i]))
        /\ SourceCell(new_df[i]) \notin ZeroForms

\* a finished cycle whose table had a textual and a numeric zero and whose
\* final table is not empty
C2_Witness ==
    /\ Completed /\ new_df # <<>>
    /\ \E k \in 1..Len(df) : \E c \in (NFixed + 1)..Len(df[k]) :
          df[k][c] = Str(<<"0", ".", "0", "0">>)
    /\ \E k \in 1..Len(df) : \E c \in (NFixed + 1)..Len(df[k]) : df[k][c] = Num(0)

(* C3: when the value of an activity column is a missing marker,
   transpose_row emits no output row for that column. *)
C3_MissingMarkerEmitsNothing ==
    pc = "t_done" =>
        \A k \in 1..NumPairs :
            MissingMarker(row[NFixed + k]) =>
                \A i \in 1..Len(transposed_rows) :
                    Activity(transposed_rows[i]) # headers[NFixed + k]

\* a call with a NaN cell in the first activity column and an emitted row for
\* the second
C3_Witness ==
    /\ pc = "t_done"
    /\ NumPairs = 2
    /\ row[NFixed + 1] = NaN
    /\ Len(transposed_rows) = 1

(* C4: every output row of transpose_row is the first 11 values of the input
   row, unchanged and in order, followed by one Activity label and one Amount
   value taken from the same activity column: 13 fields. *)
C4_FixedValuesVerbatim ==
    pc = "t_done" =>
        \A i \in 1..Len(transposed_rows) :
            /\ Len(transposed_rows[i]) = NFixed + 2
            /\ \A j \in 1..NFixed :
                  transposed_rows[i][j] = IF j <= Len(row) THEN row[j] ELSE None
            /\ \E k \in 1..NumPairs :
                  /\ Activity(transposed_rows[i]) = headers[NFixed + k]
                  /\ Amount(transposed_rows[i]) = row[NFixed + k]

\* a call that emitted two rows
C4_Witness == pc = "t_done" /\ Len(transposed_rows) = 2

(* C5: an activity value that is not a missing marker and cannot be parsed as
   a floating-point number is kept: transpose_row emits a row carrying that
   activity header and that value. *)
C5_NonNumericKept ==
    pc = "t_done" =>
        \A k \in 1..NumPairs :
            (~MissingMarker(row[NFixed + k]) /\ PyFloat(row[NFixed + k]) = FloatError) =>
                \E i \in 1..Len(transposed_rows) :
                    /\ Activity(transposed_rows[i]) = headers[NFixed + k]
                    /\ Amount(transposed_rows[i]) = row[NFixed + k]

(* C6: output order is preserved: the rows transpose_row emits for one input
   row follow the order of the activity columns, the accumulated table lists
   the rows of earlier input rows first, and the final table (and the table
   offered for download) is an order-preserving selection of the transposed
   rows. *)
C6_OrderPreserved ==
    /\ InInputOrder(transposed_rows)
    /\ InInputOrder(all_transposed_rows)
    /\ InInputOrder(new_df)
    /\ {Key(new_df[i]) : i \in 1..Len(new_df)}
          \subseteq {Key(all_transposed_rows[i]) : i \in 1..Len(all_transposed_rows)}
    /\ ui.csv # <<>> => Tail(ui.csv) = new_df

\* a finished cycle whose final table has rows of two input rows and two
\* rows of one input row, after a row was filtered out
C6_Witness ==
    /\ Completed /\ ui.csv # <<>>
    /\ Len(new_df) >= 3
    /\ Len(new_df) < Len(all_transposed_rows)

(* C7: a cycle whose final table is empty ends in the "nothing to show"
   state: the warning is shown, and no result table, success message or
   download action. *)
C7_EmptyTableShowsNothing ==
    (Completed /\ new_df = <<>>) =>
        /\ ui.warning
        /\ ~ui.table
        /\ ~ui.success
        /\ ui.csv = <<>>
        /\ ui.excel = "none"

(* C8: when spreadsheet encoding fails in a cycle with a non-empty final
   table, the CSV download is offered with the full final table, the
   spreadsheet button is shown disabled, and the cycle finishes in the
   success state without an error message. *)
C8_ExcelFailureKeepsCsv ==
    (pc = "done" /\ ui.csv # <<>> /\ new_df # <<>>) =>
        /\ ui.csv = <<new_headers(headers)>> \o new_df
        /\ ui.excel \in {"download", "disabled"}
        /\ ui.success
        /\ ~Failed

\* a finished cycle with a non-empty final table whose spreadsheet button is
\* disabled
C8_Witness ==
    /\ pc = "done" /\ new_df # <<>>
    /\ ui.excel = "disabled"
    /\ ui.success

(* C9 as stated: a failure of reading or of any later step ends the cycle
   with exactly one error message and no partial output: no transformed
   table, no statistics, no download action. *)
C9_NoPartialOutput ==
    Failed =>
        /\ Len(ui.errors) = 1
        /\ ~ui.table
        /\ ui.stats = {}
        /\ ui.csv = <<>>
        /\ ui.excel = "none"

\* the steps that come before the first element of the result is rendered
BeforeRendering == {"read", "decode", "show_original", "loop_end"}

(* C9 amended: a failure of reading or of any later step ends the cycle with
   exactly one error message, no success message, and no exception leaves
   main; when the failure happens while reading or in any step before the
   result is rendered (up to line 134) there is no partial output. *)
C9_OneErrorNoPartialBeforeRender ==
    /\ pc # "crashed"
    /\ Failed =>
          /\ pc = "done"
          /\ Len(ui.errors) = 1
          /\ ~ui.success
          /\ ui.errors[1][2] \in BeforeRendering =>
                /\ ~ui.table
                /\ ui.stats = {}
                /\ ui.csv = <<>>
                /\ ui.excel = "none"

\* a cycle in which the post-filters raised after two rows were transposed
C9_Witness ==
    /\ pc = "done"
    /\ ui.errors = <<<<"Error processing file", "loop_end">>>>
    /\ Len(all_transposed_rows) >= 2

(* C10: the statistics panel shows three counts: initial_count (rows before
   the post-filters), filtered_count (rows of the final table) and
   removed_count, their difference, with 0 <= filtered_count <= initial_count. *)
C10_PanelShowsThreeCounts ==
    ui.stats # {} =>
        /\ 0 <= filtered_count /\ filtered_count <= initial_count
        /\ \E a \in ui.stats, b \in ui.stats, c \in ui.stats :
              /\ a[1] # b[1] /\ a[1] # c[1] /\ b[1] # c[1]
              /\ a[2] = Len(all_transposed_rows)
              /\ b[2] = Len(new_df)
              /\ c[2] = a[2] - b[2]

====
